---------------------------- MODULE Spec2Model ----------------------------
(***************************************************************************)
(* MOUTH TRAP (haz-zii/You-show-off): the game's state, its input handler, *)
(* its per-frame update and its canvas sizing, as a state machine.         *)
(*                                                                         *)
(* Lengths and speeds are exact decimals in the source (0.45, 2.6, 0.28,   *)
(* 7.5); they are kept here as integers in hundredths of a pixel (Unit per *)
(* pixel), so every product and sum of the source is an exact integer.     *)
(* Canvas dimensions stay in whole pixels, as the canvas keeps them.       *)
(* IEEE-754 rounding of the JavaScript doubles is not modelled.            *)
(***************************************************************************)
EXTENDS Integers, Sequences, FiniteSets, TLC

VARIABLES
    canvasW,            \* canvas.width  (pixels)
    canvasH,            \* canvas.height (pixels)
    mouthX,             \* let mouthX
    mouthY,             \* let mouthY
    mouthVelY,          \* let mouthVelY
    pipes,              \* let pipes: sequence of obstacle records
    lastPipeAt,         \* let lastPipeAt: milliseconds since the last spawn
    score,              \* let score
    best,               \* let best: a JavaScript number, [nan, n]
    isRunning,          \* let isRunning
    isGameOver,         \* let isGameOver
    backgroundOffset,   \* let backgroundOffset
    storage,            \* localStorage['mouth_trap_best']: <<>> or <<string>>
    rafPending,         \* number of gameLoop callbacks requestAnimationFrame holds
    ticks,              \* history: frames of the current run on which update ran its body
    perturbs,           \* history: presses out of rhythm, short frames and resizes of the run
    nextId,             \* history: obstacles created in the current run
    wrote,              \* history: localStorage.setItem calls of the last step that ran code
    lastStep,           \* history: the last step that ran code: load, flap, restart, tick, resize
    bestAtLoad,         \* history: best as the script first read it
    topScore,           \* history: the highest score of any run so far
    boxA,               \* rectsOverlap's first rectangle,  <<x, y, w, h>>
    boxB,               \* rectsOverlap's second rectangle, <<x, y, w, h>>
    overlapAB,          \* rectsOverlap(boxA, boxB)
    overlapBA,          \* rectsOverlap(boxB, boxA)
    keyHeld,            \* calls of flap by the Space key now held down; 0: not held
    overFrames,         \* history: frames run since the game was last over
    widthChanged        \* history: canvas.width has changed since the load or the last reset

vars == <<canvasW, canvasH, mouthX, mouthY, mouthVelY, pipes, lastPipeAt, score,
          best, isRunning, isGameOver, backgroundOffset, storage, rafPending,
          ticks, perturbs, nextId, wrote, lastStep, bestAtLoad, topScore,
          boxA, boxB, overlapAB, overlapBA, keyHeld, overFrames,
          widthChanged>>

\* The variables kept for rectsOverlap alone.
rectVars == <<boxA, boxB, overlapAB, overlapBA>>

-----------------------------------------------------------------------------
(* Units and the source's constants *)

Unit == 100

GRAVITY == 45
FLAP_STRENGTH == -750
PIPE_GAP_MIN == 14000
PIPE_GAP_MAX == 20000
PIPE_WIDTH == 7000
PIPE_INTERVAL_MS == 1400
SCROLL_SPEED == 260
MOUTH_SIZE == 3200
GROUND_HEIGHT == 8000
MinCanvasWidth == 320
MaxFrameMs == 50
TopLimit == 4000
BottomMargin == 4000
RemovalThreshold == -1000
MouthXPercent == 28

(* Bounds of the exploration *)

\* A run in which the player taps in rhythm, every frame is a full frame and
\* the window keeps its size is followed for MaxTicks frames. A run may be
\* perturbed MaxPerturbs times within its first ShortTicks frames (by a press out
\* of rhythm, a short frame or a resize) and is then followed for ShortTicks
\* frames.
MaxTicks == 211
ShortTicks == 30
MaxPerturbs == 1

\* Rectangles handed to rectsOverlap on its own: coordinates in
\* -MaxCoord..MaxCoord, sizes in 0..MaxCoord.
MaxCoord == 2

\* A key held down is followed until it has called flap MaxKeyFlaps times.
MaxKeyFlaps == 2

\* A game that is over is followed for MaxOverFrames frames.
MaxOverFrames == 2

Min(a, b) == IF a < b THEN a ELSE b
Max(a, b) == IF a > b THEN a ELSE b


(* The environment's inputs *)

\* window.innerWidth and window.innerHeight, in pixels: a phone held upright,
\* a small window, and a window dragged down to a strip.
Viewports == { <<320, 568>>, <<330, 270>>, <<400, 100>> }

\* Values Math.random() returns, as <<numerator, denominator>>, in [0, 1).
RandomDraws == { <<0, 1>>, <<3, 4>> }

\* timestamp - lastTimestamp of a frame, in milliseconds: a frame with the
\* timestamp of the one before it, a short frame, a frame on time at 20 Hz
\* and one after a stall.
FrameGaps == { 0, 20, 50, 1500 }

\* What localStorage may hold under 'mouth_trap_best' when the page loads:
\* nothing, or a string (a sequence of characters).
StoredValues == { <<>>, << <<"2">> >>, << <<"a", "b", "c">> >> }

\* The downward speeds at which a player tapping in rhythm presses again.
RhythmSpeeds == 720..764

-----------------------------------------------------------------------------
(* Number(s) and String(n), for the strings and numbers the game meets *)

Digits == <<"0", "1", "2", "3", "4", "5", "6", "7", "8", "9">>

IsDigit(c) == \E d \in 1..10 : Digits[d] = c

DigitValue(c) == (CHOOSE d \in 1..10 : Digits[d] = c) - 1

RECURSIVE DigitsValue(_)
DigitsValue(s) ==
    IF s = <<>> THEN 0
    ELSE 10 * DigitsValue(SubSeq(s, 1, Len(s) - 1)) + DigitValue(s[Len(s)])

NaN == [nan |-> TRUE, n |-> 0]

Num(k) == [nan |-> FALSE, n |-> k]

\* Number(s) of a string s: the empty string is 0, a run of decimal digits
\* (after an optional minus sign) is its value, anything else is NaN.
NumberOfString(s) ==
    IF s = <<>> THEN Num(0)
    ELSE IF \A i \in 1..Len(s) : IsDigit(s[i]) THEN Num(DigitsValue(s))
    ELSE IF s[1] = "-" /\ Len(s) > 1 /\ \A i \in 2..Len(s) : IsDigit(s[i])
         THEN Num(0 - DigitsValue(Tail(s)))
    ELSE NaN

\* Number(localStorage.getItem('mouth_trap_best') || 0): null and the empty
\* string are falsy and give Number(0).
ReadBest(item) ==
    IF item = <<>> \/ item[1] = <<>> THEN Num(0) ELSE NumberOfString(item[1])

\* String(n) of an integer n >= 0.
RECURSIVE StringOfNat(_)
StringOfNat(k) ==
    IF k < 10 THEN <<Digits[k + 1]>>
    ELSE StringOfNat(k \div 10) \o <<Digits[(k % 10) + 1]>>

\* a >= b on JavaScript numbers, a an integer: false whenever b is NaN.
GreaterOrEqual(a, b) == ~b.nan /\ a >= b.n

\* a > b on JavaScript numbers, a an integer: false whenever b is NaN.
GreaterThan(a, b) == ~b.nan /\ a > b.n

-----------------------------------------------------------------------------
(* resizeCanvas *)

\* The canvas size resizeCanvas sets for a viewport <<innerWidth, innerHeight>>.
ResizeCanvas(vp) ==
    LET desiredWidth == Max(MinCanvasWidth, vp[1])
        desiredHeightByAspect == (3 * desiredWidth) \div 2
    IN  [w |-> desiredWidth, h |-> Min(desiredHeightByAspect, vp[2])]

-----------------------------------------------------------------------------
(* rectsOverlap, spawnPipe, update *)

\* The comparison with touching edges counted as overlap.
rectsTouchOrOverlap(ax, ay, aw, ah, bx, by, bw, bh) ==
    ax <= bx + bw /\ ax + aw >= bx /\ ay <= by + bh /\ ay + ah >= by

\* The comparison without its second test, ax + aw > bx.
rectsOverlapOneSided(ax, ay, aw, ah, bx, by, bw, bh) ==
    ax < bx + bw /\ ay < by + bh /\ ay + ah > by

rectsOverlap(ax, ay, aw, ah, bx, by, bw, bh) ==
    ax < bx + bw /\ ax + aw > bx /\ ay < by + bh /\ ay + ah > by

\* r * span for a draw r = <<numerator, denominator>>.
Scaled(r, span) == (r[1] * span) \div r[2]

\* The record spawnPipe pushes, for canvas size w x h and the draws r1, r2.
SpawnPipe(w, h, r1, r2, id) ==
    LET gap == PIPE_GAP_MIN + Scaled(r1, PIPE_GAP_MAX - PIPE_GAP_MIN)
        topLimit == TopLimit
        bottomLimit == h * Unit - GROUND_HEIGHT - BottomMargin - gap
        topHeight == topLimit + Scaled(r2, bottomLimit - topLimit)
    IN  [id |-> id, x |-> w * Unit + PIPE_WIDTH, width |-> PIPE_WIDTH,
         topHeight |-> topHeight, gap |-> gap, passed |-> FALSE]

GroundY(h) == h * Unit - GROUND_HEIGHT - MOUTH_SIZE

\* update's physics with a ground that clamps but does not end the game.
PhysicsSoftGround(y, v, h) ==
    LET v1 == v + GRAVITY
        y1 == y + v1
        y2 == IF y1 < 0 THEN 0 ELSE y1
        v2 == IF y1 < 0 THEN 0 ELSE v1
        groundY == GroundY(h)
    IN  [y |-> IF y2 > groundY THEN groundY ELSE y2,
         v |-> v2,
         over |-> FALSE]

\* update's physics: gravity, integration, the ceiling clamp, the ground clamp.
Physics(y, v, h) ==
    LET v1 == v + GRAVITY
        y1 == y + v1
        y2 == IF y1 < 0 THEN 0 ELSE y1
        v2 == IF y1 < 0 THEN 0 ELSE v1
        groundY == GroundY(h)
    IN  [y |-> IF y2 > groundY THEN groundY ELSE y2,
         v |-> v2,
         over |-> y2 > groundY]

RemoveAt(s, i) == SubSeq(s, 1, i - 1) \o SubSeq(s, i + 1, Len(s))

\* The crossing test alone, without the test of the passed flag.
ScoresWhenLeft(p, mx) ==
    LET mouthCenter == mx + MOUTH_SIZE \div 2
        pipeCenter == p.x + p.width \div 2
    IN  pipeCenter < mouthCenter

\* Whether update scores pipe p (already advanced) for a mouth at mx.
Scores(p, mx) ==
    LET mouthCenter == mx + MOUTH_SIZE \div 2
        pipeCenter == p.x + p.width \div 2
    IN  ~p.passed /\ pipeCenter < mouthCenter

\* Whether update finds the mouth at (mx, my) colliding with pipe p.
Collides(p, mx, my, h) ==
    LET topRectCollide ==
            rectsOverlap(mx, my, MOUTH_SIZE, MOUTH_SIZE, p.x, 0, p.width, p.topHeight)
        bottomRectCollide ==
            rectsOverlap(mx, my, MOUTH_SIZE, MOUTH_SIZE, p.x, p.topHeight + p.gap,
                         p.width, h * Unit - GROUND_HEIGHT - (p.topHeight + p.gap))
    IN  topRectCollide \/ bottomRectCollide

\* A variant: a pipe is removed once its left edge is behind the mouth's
\* right edge.
ScrolledOffAtMouth(p) == p.x < mouthX + MOUTH_SIZE

\* Removal decided on the left edge alone, the width left out.
ScrolledOffByLeftEdge(p) == p.x < RemovalThreshold

\* Whether update removes a pipe (already advanced) from the list.
ScrolledOff(p) == p.x + p.width < RemovalThreshold

\* One pass of update's loop, for the pipe at index i. st carries what the
\* loop writes: pipes, score, best, storage, over, wrote.
StepPipe(i, st, mx, my, h) ==
    LET p == [st.pipes[i] EXCEPT !.x = @ - SCROLL_SPEED]
    IN  IF ScrolledOff(p)
        THEN [st EXCEPT !.pipes = RemoveAt(@, i)]
        ELSE
          LET hit == Scores(p, mx)
              score1 == IF hit THEN st.score + 1 ELSE st.score
              raise == hit /\ GreaterThan(score1, st.best)
              p1 == IF hit THEN [p EXCEPT !.passed = TRUE] ELSE p
          IN  [pipes |-> [st.pipes EXCEPT ![i] = p1],
               score |-> score1,
               best |-> IF raise THEN Num(score1) ELSE st.best,
               storage |-> IF raise THEN <<StringOfNat(score1)>> ELSE st.storage,
               over |-> st.over \/ Collides(p1, mx, my, h),
               wrote |-> IF raise THEN st.wrote + 1 ELSE st.wrote]

\* update's loop over the pipes, from index i down to 1.
RECURSIVE ScanPipes(_, _, _, _, _)
ScanPipes(i, st, mx, my, h) ==
    IF i = 0 THEN st
    ELSE CHOOSE r \in { ScanPipes(i - 1, next, mx, my, h) :
                            next \in {StepPipe(i, st, mx, my, h)} } : TRUE

\* A variant: the loop tests collisions at the y the mouth had before this
\* tick's physics.
ScannedAtOldY(ph) ==
    ScanPipes(Len(pipes),
              [pipes |-> pipes, score |-> score, best |-> best,
               storage |-> storage, over |-> ph.over, wrote |-> 0],
              mouthX, mouthY, canvasH)

\* A variant: the loop is skipped in the tick in which the ground was hit.
ScannedUnlessGrounded(ph) ==
    IF ph.over
    THEN [pipes |-> pipes, score |-> score, best |-> best,
          storage |-> storage, over |-> TRUE, wrote |-> 0]
    ELSE ScanPipes(Len(pipes),
                   [pipes |-> pipes, score |-> score, best |-> best,
                    storage |-> storage, over |-> FALSE, wrote |-> 0],
                   mouthX, ph.y, canvasH)

\* update's loop run over all the pipes, after the physics result ph.
Scanned(ph) ==
    ScanPipes(Len(pipes),
              [pipes |-> pipes, score |-> score, best |-> best,
               storage |-> storage, over |-> ph.over, wrote |-> 0],
              mouthX, ph.y, canvasH)

\* The spawn timer after update has added dt to it, before the comparison.
TimerAfter(dt) == lastPipeAt + dt

\* A variant: a timer that has reached the interval has run out.
TimerRanOutAtInterval(timer) == timer >= PIPE_INTERVAL_MS

\* update's test that the spawn timer has run out.
TimerRanOut(timer) == timer > PIPE_INTERVAL_MS

\* What update has written once physics gave ph and the loop gave st.
Written(ph, st, dt) ==
    [mouthY |-> ph.y,
     mouthVelY |-> ph.v,
     backgroundOffset |-> (backgroundOffset + SCROLL_SPEED) % (canvasW * Unit),
     pipes |-> st.pipes,
     score |-> st.score,
     best |-> st.best,
     storage |-> st.storage,
     isGameOver |-> st.over,
     wrote |-> st.wrote,
     spawned |-> TimerRanOut(TimerAfter(dt)),
     lastPipeAt |-> IF TimerRanOut(TimerAfter(dt)) THEN 0 ELSE TimerAfter(dt)]

\* update(dt) when isGameOver is false, up to the decision to spawn: what it
\* has written by then, and in spawned whether it goes on to call spawnPipe.
\* Each intermediate result is bound once, as the member of a singleton set.
Update(dt) ==
    CHOOSE u \in UNION { { Written(ph, st, dt) : st \in {Scanned(ph)} } :
                           ph \in {Physics(mouthY, mouthVelY, canvasH)} } : TRUE

-----------------------------------------------------------------------------
(* The state after the script has run *)

NoBox == <<0, 0, 0, 0>>

Loaded(vp, item) ==
    LET c == ResizeCanvas(vp)
    IN  /\ canvasW = c.w
        /\ canvasH = c.h
        /\ mouthY = (c.h * Unit) \div 2
        /\ mouthX = c.w * MouthXPercent
        /\ mouthVelY = 0
        /\ pipes = <<>>
        /\ lastPipeAt = 0
        /\ score = 0
        /\ storage = item
        /\ best = ReadBest(item)
        /\ isRunning = FALSE
        /\ isGameOver = FALSE
        /\ backgroundOffset = 0
        /\ rafPending = 0
        /\ ticks = 0
        /\ perturbs = 0
        /\ nextId = 0
        /\ wrote = 0
        /\ lastStep = "load"
        /\ bestAtLoad = ReadBest(item)
        /\ topScore = 0
        /\ boxA = NoBox
        /\ boxB = NoBox
        /\ overlapAB = FALSE
        /\ overlapBA = FALSE
        /\ keyHeld = 0
        /\ overFrames = 0
        /\ widthChanged = FALSE

Init == \E vp \in Viewports, item \in StoredValues : Loaded(vp, item)

-----------------------------------------------------------------------------
(* The handlers *)

\* The mouth has just been stopped by the ceiling.
StoppedAtCeiling == lastStep = "tick" /\ mouthY = 0 /\ mouthVelY = 0

\* A press in rhythm: the game is idle or over, the mouth falls at one of the
\* rhythm's speeds, or the ceiling has just stopped it.
InRhythm ==
    ~isRunning \/ isGameOver \/ mouthVelY \in RhythmSpeeds \/ StoppedAtCeiling

\* Whether the run may be perturbed now, and whether it is still followed. A
\* run with a key held down counts as perturbed.
MayPerturb == perturbs < MaxPerturbs /\ ticks < ShortTicks

\* The next tick will score a pipe.
AboutToScore ==
    /\ isRunning
    /\ ~isGameOver
    /\ \E i \in DOMAIN pipes :
         Scores([pipes[i] EXCEPT !.x = @ - SCROLL_SPEED], mouthX)

\* The window may be resized early in a run and just before a pipe is scored;
\* the tick after a resize is always followed.
MayResize == MayPerturb \/ (perturbs < MaxPerturbs /\ AboutToScore)

\* A frame may come with the timestamp of the one before it (dt = 0) when one
\* more full frame would bring the spawn timer to the interval; the run is
\* then followed until its next spawn.
MayShorten ==
    /\ perturbs < MaxPerturbs
    /\ lastPipeAt + MaxFrameMs = PIPE_INTERVAL_MS

Followed ==
    \/ ticks < (IF perturbs = 0 THEN MaxTicks ELSE ShortTicks)
    \/ lastStep = "resize" /\ ticks <= MaxTicks
    \/ lastPipeAt + MaxFrameMs >= PIPE_INTERVAL_MS /\ ticks <= MaxTicks

\* A variant: dt is the whole gap between two frames.
FrameDtUncapped(gapMs) == gapMs

\* gameLoop's dt for a gap of gapMs between two frames.
FrameDt(gapMs) == Min(MaxFrameMs, gapMs)

\* resetGame() followed by the impulse of a press.
ResetGameAndFlap ==
    /\ mouthY' = (canvasH * Unit) \div 2
    /\ mouthX' = canvasW * MouthXPercent
    /\ mouthVelY' = FLAP_STRENGTH
    /\ pipes' = <<>>
    /\ lastPipeAt' = 0
    /\ score' = 0
    /\ isGameOver' = FALSE
    /\ backgroundOffset' = 0

\* resetGame()
ResetGame ==
    /\ mouthY' = (canvasH * Unit) \div 2
    /\ mouthX' = canvasW * MouthXPercent
    /\ mouthVelY' = 0
    /\ pipes' = <<>>
    /\ lastPipeAt' = 0
    /\ score' = 0
    /\ isGameOver' = FALSE
    /\ backgroundOffset' = 0

\* The frames requested if flap asked for none.
FramesWithoutRequest == rafPending

\* The frames requested if flap asked for one at every call.
FramesWithRequestEachCall == rafPending + 1

\* The frames requested once flap has run.
FramesAfterFlap == IF isRunning THEN rafPending ELSE rafPending + 1

\* An impulse added to the velocity v the mouth has.
ImpulseAdded(v) == v + FLAP_STRENGTH

\* mouthVelY = FLAP_STRENGTH: the velocity flap leaves, whatever v was.
Impulse(v) == FLAP_STRENGTH

\* flap(): what one call does.
FlapCall ==
    /\ isRunning' = TRUE
    /\ rafPending' = FramesAfterFlap
    /\ IF isGameOver
       THEN /\ ResetGame
            /\ ticks' = 0
            /\ nextId' = 0
            /\ lastStep' = "restart"
       ELSE /\ mouthVelY' = Impulse(mouthVelY)
            /\ lastStep' = "flap"
            /\ UNCHANGED <<mouthY, mouthX, pipes, lastPipeAt, score, isGameOver,
                           backgroundOffset, ticks, nextId>>
    /\ wrote' = 0
    /\ overFrames' = 0
    /\ widthChanged' = (~isGameOver /\ widthChanged)
    /\ UNCHANGED <<canvasW, canvasH, best, storage, bestAtLoad, topScore>>
    /\ UNCHANGED rectVars

\* One press and release: onKeyDown (Space), mousedown on the canvas or
\* touchstart on the canvas, each of which calls flap.
Flap ==
    /\ InRhythm \/ MayPerturb
    /\ FlapCall
    /\ perturbs' = IF isGameOver THEN Min(keyHeld, 1)
                   ELSE IF InRhythm THEN perturbs ELSE perturbs + 1
    /\ UNCHANGED keyHeld

\* onKeyDown for the keydown of a Space key that then stays down.
KeyHold ==
    /\ keyHeld = 0
    /\ MayPerturb
    /\ FlapCall
    /\ perturbs' = perturbs + 1
    /\ keyHeld' = 1

\* onKeyDown for a keydown the browser repeats while the key stays down. The
\* repeats followed are those that arrive before the next frame or when the
\* game is over.
KeyRepeat ==
    /\ keyHeld > 0
    /\ keyHeld < MaxKeyFlaps
    /\ isGameOver \/ lastStep \in {"flap", "restart"}
    /\ FlapCall
    /\ UNCHANGED perturbs
    /\ keyHeld' = keyHeld + 1

\* The key is released: no handler listens. A hold is followed to its last
\* repeated keydown and the release that comes before the next frame.
KeyUp ==
    /\ keyHeld = MaxKeyFlaps
    /\ lastStep \in {"flap", "restart"}
    /\ keyHeld' = 0
    /\ wrote' = 0
    /\ lastStep' = "keyup"
    /\ UNCHANGED <<canvasW, canvasH, mouthX, mouthY, mouthVelY, pipes,
                   lastPipeAt, score, best, isRunning, isGameOver,
                   backgroundOffset, storage, rafPending, ticks, perturbs,
                   nextId, bestAtLoad, topScore, overFrames, widthChanged>>
    /\ UNCHANGED rectVars

\* update without its first line.
UpdateNeverReturnsAtOnce == FALSE

\* update's first line: if (isGameOver) return;
UpdateReturnsAtOnce == isGameOver

\* The frames requested if gameLoop asked for no successor.
FramesWithoutSuccessor == rafPending - 1

\* The frames requested once gameLoop has run: the one that ran is gone, and
\* if (isRunning) requestAnimationFrame(gameLoop) asks for the next.
FramesAfterLoop == IF isRunning THEN rafPending ELSE rafPending - 1

\* gameLoop(timestamp): update(dt), draw(), and the next frame's request.
GameLoop ==
    /\ rafPending > 0
    /\ rafPending' = FramesAfterLoop
    /\ IF UpdateReturnsAtOnce
       THEN /\ overFrames < MaxOverFrames
            /\ overFrames' = overFrames + 1
            /\ wrote' = 0
            /\ lastStep' = "frame"
            /\ UNCHANGED <<mouthY, mouthVelY, pipes, lastPipeAt, score, best,
                           storage, isGameOver, backgroundOffset, ticks, nextId,
                           perturbs, topScore>>
       ELSE /\ Followed
            /\ overFrames' = 0
            /\ \E dt \in { FrameDt(gapMs) : gapMs \in FrameGaps } :
                 /\ \/ dt = MaxFrameMs
                    \/ dt > 0 /\ MayPerturb
                    \/ dt = 0 /\ MayShorten
                 /\ perturbs' = IF dt = MaxFrameMs THEN perturbs ELSE perturbs + 1
                 /\ \E u \in {Update(dt)} :
                     /\ mouthY' = u.mouthY
                     /\ mouthVelY' = u.mouthVelY
                     /\ backgroundOffset' = u.backgroundOffset
                     /\ score' = u.score
                     /\ best' = u.best
                     /\ storage' = u.storage
                     /\ isGameOver' = u.isGameOver
                     /\ lastPipeAt' = u.lastPipeAt
                     /\ wrote' = u.wrote
                     /\ topScore' = Max(topScore, u.score)
                     /\ IF u.spawned
                        THEN \E r1 \in RandomDraws, r2 \in RandomDraws :
                               /\ pipes' = Append(u.pipes,
                                      SpawnPipe(canvasW, canvasH, r1, r2, nextId + 1))
                               /\ nextId' = nextId + 1
                        ELSE /\ pipes' = u.pipes
                             /\ nextId' = nextId
            /\ ticks' = ticks + 1
            /\ lastStep' = "tick"
    /\ UNCHANGED <<canvasW, canvasH, mouthX, isRunning, bestAtLoad, keyHeld,
                   widthChanged>>
    /\ UNCHANGED rectVars

\* The window's resize listener: resizeCanvas(), then a redraw.
Resize ==
    /\ MayResize
    /\ \E vp \in Viewports :
         LET c == ResizeCanvas(vp)
         IN  /\ c.w # canvasW \/ c.h # canvasH
             /\ canvasW' = c.w
             /\ canvasH' = c.h
             /\ widthChanged' = (widthChanged \/ c.w # canvasW)
    /\ perturbs' = perturbs + 1
    /\ wrote' = 0
    /\ lastStep' = "resize"
    /\ UNCHANGED <<mouthX, mouthY, mouthVelY, pipes, lastPipeAt, score, best,
                   isRunning, isGameOver, backgroundOffset, storage, rafPending,
                   ticks, nextId, bestAtLoad, topScore, keyHeld, overFrames>>
    /\ UNCHANGED rectVars

Next == Flap \/ KeyHold \/ KeyRepeat \/ KeyUp \/ GameLoop \/ Resize

Spec == Init /\ [][Next]_vars

\* Presses and frames on the small window, nothing stored, the browser
\* delivering every frame that is requested.
InitLive == Loaded(<<330, 270>>, <<>>)

NextLive == Flap \/ GameLoop

SpecLive == InitLive /\ [][NextLive]_vars /\ WF_vars(GameLoop)

-----------------------------------------------------------------------------
(* rectsOverlap on its own: the page as loaded, and any two rectangles *)

Coords == (0 - MaxCoord)..MaxCoord

Sizes == 0..MaxCoord

Boxes == Coords \X Coords \X Sizes \X Sizes

\* The page as loaded, with the two rectangles of the call to come.
InitRects ==
    /\ canvasW = MinCanvasWidth
    /\ canvasH = ResizeCanvas(<<MinCanvasWidth, MinCanvasWidth>>).h
    /\ mouthY = (canvasH * Unit) \div 2
    /\ mouthX = canvasW * MouthXPercent
    /\ mouthVelY = 0
    /\ pipes = <<>>
    /\ lastPipeAt = 0
    /\ score = 0
    /\ storage = <<>>
    /\ best = ReadBest(<<>>)
    /\ isRunning = FALSE
    /\ isGameOver = FALSE
    /\ backgroundOffset = 0
    /\ rafPending = 0
    /\ ticks = 0
    /\ perturbs = 0
    /\ nextId = 0
    /\ wrote = 0
    /\ lastStep = "load"
    /\ bestAtLoad = ReadBest(<<>>)
    /\ topScore = 0
    /\ boxA \in Boxes
    /\ boxB \in Boxes
    /\ overlapAB = FALSE
    /\ overlapBA = FALSE
    /\ keyHeld = 0
    /\ overFrames = 0
    /\ widthChanged = FALSE

\* Both orders of one call of rectsOverlap.
CompareBoxes ==
    /\ lastStep = "load"
    /\ lastStep' = "compare"
    /\ overlapAB' = rectsOverlap(boxA[1], boxA[2], boxA[3], boxA[4],
                                 boxB[1], boxB[2], boxB[3], boxB[4])
    /\ overlapBA' = rectsOverlap(boxB[1], boxB[2], boxB[3], boxB[4],
                                 boxA[1], boxA[2], boxA[3], boxA[4])
    /\ UNCHANGED <<canvasW, canvasH, mouthX, mouthY, mouthVelY, pipes,
                   lastPipeAt, score, best, isRunning, isGameOver,
                   backgroundOffset, storage, rafPending, ticks, perturbs,
                   nextId, wrote, bestAtLoad, topScore, boxA, boxB, keyHeld,
                   overFrames, widthChanged>>

SpecRects == InitRects /\ [][CompareBoxes]_vars

-----------------------------------------------------------------------------
(* Properties *)

\* The ids of the pipes in a list, and of those marked passed.
Ids(ps) == { ps[i].id : i \in DOMAIN ps }

PassedIds(ps) == { ps[i].id : i \in { j \in DOMAIN ps : ps[j].passed } }

PipeWithId(ps, id) == ps[CHOOSE i \in DOMAIN ps : ps[i].id = id]

\* Whether a pipe's horizontal center is left of the mouth's.
CenterIsLeft(p, mx) == p.x + p.width \div 2 < mx + MOUTH_SIZE \div 2

\* A step that starts a new run.
IsReset == isGameOver /\ ~isGameOver'

\* C1: within a run the score never decreases, and every obstacle adds 1 to it
\* exactly once: a step's increase of score is the number of obstacles whose
\* passed flag it flips from false to true, a flag set is never cleared, an
\* obstacle enters the list unpassed, and a tick sets the flag of an unpassed
\* obstacle it keeps exactly when the obstacle's center is then left of the
\* mouth's center.
ScoreCountsEachPipeOnce ==
    [][ ~IsReset =>
          /\ score' >= score
          /\ score' - score = Cardinality(PassedIds(pipes') \ PassedIds(pipes))
          /\ PassedIds(pipes) \cap Ids(pipes') \subseteq PassedIds(pipes')
          /\ \A id \in Ids(pipes') \ Ids(pipes) : ~PipeWithId(pipes', id).passed
          /\ lastStep' = "tick" =>
               \A id \in (Ids(pipes') \cap Ids(pipes)) \ PassedIds(pipes) :
                   PipeWithId(pipes', id).passed
                       <=> CenterIsLeft(PipeWithId(pipes', id), mouthX)
      ]_vars

\* An obstacle counted once, ticks ago, in a run that goes on.
ScoredPipeSeenAgain ==
    /\ score = 1
    /\ ~isGameOver
    /\ lastStep = "tick"
    /\ \E i \in DOMAIN pipes :
         /\ pipes[i].passed
         /\ CenterIsLeft([pipes[i] EXCEPT !.x = @ + 2 * SCROLL_SPEED], mouthX)


\* Math.max(a, k) of a number a and an integer k: NaN when a is NaN.
MaxNumber(a, k) == IF a.nan THEN NaN ELSE Num(Max(a.n, k))

\* C2: best is max(the best read at load, the highest score of any run so
\* far); best never decreases and a reset leaves it and the stored value
\* alone; a step writes to storage exactly when it is a tick in which score
\* came to exceed the best held before it, and what it writes is String(best),
\* which reads back as best.
BestIsMaxAndStoredWhenExceeded ==
    [][ /\ best' = MaxNumber(bestAtLoad', topScore')
        /\ best.nan => best'.nan
        /\ ~best.nan => ~best'.nan /\ best'.n >= best.n
        /\ IsReset => best' = best /\ storage' = storage
        /\ wrote' > 0 <=> lastStep' = "tick" /\ ~best.nan /\ score' > best.n
        /\ wrote' > 0 =>
             /\ storage' = <<StringOfNat(best'.n)>>
             /\ ReadBest(storage') = best'
             /\ best' = Num(score')
        /\ wrote' = 0 => storage' = storage /\ best' = best
      ]_vars

\* A stored best of 2 beaten: the tick that scores the third obstacle.
StoredBestBeaten ==
    /\ bestAtLoad = Num(2)
    /\ lastStep = "tick"
    /\ wrote > 0
    /\ score = 3
    /\ best = Num(3)


\* C3: a press while the game is over resets the world: score 0, game not
\* over, no obstacles, spawn timer and background offset 0, the mouth at
\* (0.28 * canvas.width, canvas.height / 2) with velocity 0, and best as it
\* was before the press.
PressWhenOverResetsWorld ==
    [][ isGameOver /\ lastStep' \in {"flap", "restart"} =>
          /\ score' = 0
          /\ ~isGameOver'
          /\ pipes' = <<>>
          /\ lastPipeAt' = 0
          /\ backgroundOffset' = 0
          /\ 2 * mouthY' = canvasH * Unit
          /\ 100 * mouthX' = 28 * canvasW * Unit
          /\ mouthVelY' = 0
          /\ best' = best
          /\ storage' = storage
      ]_vars

\* Just after the press that restarts a game lost with a score that raised
\* best.
RestartedWithBestKept ==
    /\ lastStep = "restart"
    /\ score = 0
    /\ topScore > 0
    /\ best = Num(topScore)
    /\ pipes = <<>>


\* A run in which no impulse has acted since its reset: the velocity is what
\* gravity alone has built up.
FreshFall == isRunning /\ ~isGameOver /\ mouthVelY = ticks * GRAVITY

\* C4: in a fresh world with no impulse applied, every tick either moves the
\* mouth strictly down, short of or onto the ground limit and (no obstacle
\* being there) without ending the game, or clamps it at the ground limit
\* canvas.height - GROUND_HEIGHT - MOUTH_SIZE and sets game over in that tick;
\* and game over, once true, only becomes false by a press that resets.
FallsUntilGroundEndsGame ==
    [][ /\ FreshFall /\ lastStep' = "tick" =>
              \/ /\ mouthY' > mouthY
                 /\ mouthY' <= GroundY(canvasH)
                 /\ pipes = <<>> => ~isGameOver'
              \/ /\ mouthY' = GroundY(canvasH)
                 /\ mouthY + mouthVelY + GRAVITY > GroundY(canvasH)
                 /\ isGameOver'
        /\ isGameOver /\ ~isGameOver' => lastStep' = "restart"
        /\ isGameOver /\ lastStep' \in {"tick", "frame"} => isGameOver'
      ]_vars

\* The end of a fall of several ticks from the reset position onto the ground.
FellToGround ==
    /\ isGameOver
    /\ lastStep = "tick"
    /\ ticks > 20
    /\ perturbs = 0
    /\ mouthVelY = ticks * GRAVITY
    /\ mouthY = GroundY(canvasH)
    /\ pipes = <<>>


\* C5: after every tick that runs the physics, the mouth's y lies in
\* [0, groundLimit], groundLimit being canvas.height - GROUND_HEIGHT -
\* MOUTH_SIZE of that tick.
MouthWithinCeilingAndGround ==
    lastStep = "tick" => 0 <= mouthY /\ mouthY <= GroundY(canvasH)


\* The obstacle spawnPipe has just pushed, if the last step was a tick that
\* spawned one: it stands at canvas.width + PIPE_WIDTH, not yet advanced.
JustSpawned(p) == lastStep = "tick" /\ p.x = canvasW * Unit + PIPE_WIDTH

\* C7: every obstacle spawnPipe creates, at the canvas height of its spawn
\* and for every random draw, has gap in [PIPE_GAP_MIN, PIPE_GAP_MAX],
\* topHeight >= 40, topHeight <= canvas.height - GROUND_HEIGHT - 40 and
\* topHeight + gap <= canvas.height - GROUND_HEIGHT - 40.
SpawnedGapWithinEnvelope ==
    \A i \in DOMAIN pipes :
        JustSpawned(pipes[i]) =>
            LET floor == canvasH * Unit - GROUND_HEIGHT - BottomMargin
            IN  /\ pipes[i].gap >= PIPE_GAP_MIN
                /\ pipes[i].gap <= PIPE_GAP_MAX
                /\ pipes[i].topHeight >= TopLimit
                /\ pipes[i].topHeight <= floor
                /\ pipes[i].topHeight + pipes[i].gap <= floor


\* An obstacle that stood at x = 0 a whole number of ticks ago, and how many.
WasAtZero(p) == p.x <= 0 /\ (0 - p.x) % SCROLL_SPEED = 0

TicksSinceZero(p) == (0 - p.x) \div SCROLL_SPEED

\* C6 as stated: an obstacle at x = 0 scrolled left for 30 running ticks is
\* absent from the list after the 30th tick, so the list never holds an
\* obstacle 30 ticks past x = 0.
GoneThirtyTicksAfterZero ==
    \A i \in DOMAIN pipes :
        ~(WasAtZero(pipes[i]) /\ TicksSinceZero(pipes[i]) = 30)

\* C6, amended: a running tick moves an obstacle that is up to 29 ticks past
\* x = 0 left by SCROLL_SPEED and keeps it in the list, so after the 30th
\* tick it is in the list at x = -78 (x + width = -8 is not below -10); the
\* 31st tick removes it.
RemovedOnTick31AfterZero ==
    [][ ~isGameOver /\ lastStep' = "tick" =>
          \A id \in Ids(pipes) :
              LET p == PipeWithId(pipes, id)
              IN  /\ WasAtZero(p) /\ TicksSinceZero(p) < 30 =>
                        /\ id \in Ids(pipes')
                        /\ PipeWithId(pipes', id).x = p.x - SCROLL_SPEED
                        /\ PipeWithId(pipes', id).x >= 0 - 30 * SCROLL_SPEED
                  /\ WasAtZero(p) /\ TicksSinceZero(p) = 30 =>
                        id \notin Ids(pipes')
      ]_vars

\* The run just after its first obstacle has been removed from the list.
FirstPipeRemoved ==
    /\ lastStep = "tick"
    /\ ~isGameOver
    /\ pipes # <<>>
    /\ pipes[1].id = 2
    /\ \A i \in DOMAIN pipes : WasAtZero(pipes[i]) => TicksSinceZero(pipes[i]) < 30


\* Two boxes <<x, y, w, h>> share interior points: on each axis the larger of
\* the two low ends is below the smaller of the two high ends.
StrictlyOverlap(a, b) ==
    /\ Max(a[1], b[1]) < Min(a[1] + a[3], b[1] + b[3])
    /\ Max(a[2], b[2]) < Min(a[2] + a[4], b[2] + b[4])

MouthBox(mx, my) == <<mx, my, MOUTH_SIZE, MOUTH_SIZE>>

\* The barriers of a pipe on a canvas of height h: y from 0 to topHeight, and
\* y from topHeight + gap to canvas.height - GROUND_HEIGHT.
TopBarrier(p) == <<p.x, 0, p.width, p.topHeight>>

BottomBarrier(p, h) ==
    <<p.x, p.topHeight + p.gap, p.width,
      h * Unit - GROUND_HEIGHT - (p.topHeight + p.gap)>>

HitsBarrier(p, mx, my, h) ==
    \/ StrictlyOverlap(MouthBox(mx, my), TopBarrier(p))
    \/ StrictlyOverlap(MouthBox(mx, my), BottomBarrier(p, h))

\* Both barriers are rectangles of non-negative height.
ProperBarriers(p, h) == TopBarrier(p)[4] >= 0 /\ BottomBarrier(p, h)[4] >= 0

\* The tick clamps the mouth at the ground limit.
HitsGround ==
    Max(0, mouthY + mouthVelY + GRAVITY) > GroundY(canvasH)

\* C8: in a running tick, game over is set if the mouth's box strictly
\* overlaps the top or the bottom barrier of an obstacle the tick has advanced
\* and kept; and where no box strictly overlaps a barrier (touching along an
\* edge included) and the ground is not hit, the tick does not set game over.
CollisionIsStrictOverlap ==
    [][ ~isGameOver /\ lastStep' = "tick" =>
          /\ (\E i \in DOMAIN pipes' :
                  HitsBarrier(pipes'[i], mouthX, mouthY', canvasH))
               => isGameOver'
          /\ (/\ ~HitsGround
              /\ \A i \in DOMAIN pipes' :
                   /\ ProperBarriers(pipes'[i], canvasH)
                   /\ ~HitsBarrier(pipes'[i], mouthX, mouthY', canvasH))
               => ~isGameOver'
      ]_vars

\* After a tick, the mouth's right edge on the left edge of a barrier whose
\* span of y it shares: one hundredth of a pixel further and the boxes
\* overlap. The game goes on.
TouchingAlongAnEdge ==
    /\ lastStep = "tick"
    /\ ~isGameOver
    /\ \E i \in DOMAIN pipes :
         /\ pipes[i].x = mouthX + MOUTH_SIZE
         /\ ProperBarriers(pipes[i], canvasH)
         /\ ~HitsBarrier(pipes[i], mouthX, mouthY, canvasH)
         /\ HitsBarrier([pipes[i] EXCEPT !.x = @ - 1], mouthX, mouthY, canvasH)


\* C9: rectsOverlap is symmetric: for every two rectangles A and B with
\* integer coordinates and non-negative sizes, rectsOverlap(A, B) equals
\* rectsOverlap(B, A).
RectsOverlapIsSymmetric ==
    lastStep = "compare" => overlapAB = overlapBA

\* Two different rectangles compared and found to overlap, A reaching from
\* the left of B into it.
DifferentBoxesOverlap ==
    /\ lastStep = "compare"
    /\ overlapAB
    /\ boxA[1] < boxB[1]
    /\ boxA[2] > boxB[2]


\* A stored string that spells an integer >= 0.
SpellsNatural(s) == s # <<>> /\ \A i \in 1..Len(s) : IsDigit(s[i])

\* C10: the best read at startup is an integer >= 0: the stored value when
\* that spells an integer, 0 when the key is absent or holds something that
\* is not a number; so best is always a number no score of the run exceeds
\* once the tick that reached it is over.
BestReadAtLoadIsANumber ==
    /\ lastStep = "load" =>
         /\ ~best.nan
         /\ best.n >= 0
         /\ storage # <<>> /\ SpellsNatural(storage[1])
                => best.n = DigitsValue(storage[1])
         /\ storage = <<>> \/ ~SpellsNatural(storage[1]) => best.n = 0
    /\ ~best.nan
    /\ best.n >= score


\* C11: one press makes at most one call of flap: the Space key, however long
\* it is held and whatever keydown events the browser repeats for it, has
\* called flap at most once, so no repeated flap and no restart comes from it.
OneFlapPerPress == keyHeld <= 1


\* The phases of the lifecycle.
Idle == ~isRunning

Running == isRunning /\ ~isGameOver

GameOver == isRunning /\ isGameOver

\* C12: the lifecycle is Idle -> Running -> GameOver -> Running. A press in
\* Idle sets isRunning and requests the first frame; a press in Running
\* changes the mouth's vertical velocity and nothing else of the game;
\* Running is left only for GameOver, by a tick, and GameOver only for
\* Running; once isRunning is true it stays true.
LifecycleNeverReturnsToIdle ==
    [][ /\ Idle => ~isGameOver /\ rafPending = 0
        /\ Idle /\ lastStep' = "flap" =>
             Running' /\ rafPending' = 1
        /\ Idle /\ lastStep' # "flap" => Idle'
        /\ Running /\ lastStep' = "flap" =>
             /\ mouthVelY' = FLAP_STRENGTH
             /\ Running'
             /\ UNCHANGED <<canvasW, canvasH, mouthX, mouthY, pipes, lastPipeAt,
                            score, best, storage, backgroundOffset, rafPending>>
        /\ Running /\ GameOver' => lastStep' = "tick"
        /\ GameOver => GameOver' \/ (Running' /\ lastStep' = "restart")
        /\ isRunning => isRunning'
      ]_vars

\* A press in Running, in a game restarted after one that scored.
PressInSecondRun ==
    /\ lastStep = "flap"
    /\ Running
    /\ score = 0
    /\ topScore > 0
    /\ ticks > 0


\* C13: coordinates that refer to the canvas size before a resize survive for
\* at most one tick: at the end of the first running tick after a resize the
\* mouth's y is in [0, new groundLimit], the background offset is in
\* [0, new width), the mouth's x is 0.28 * the new width, and both barriers of
\* every obstacle have non-negative height on the new canvas.
FreshCoordinatesOneTickAfterResize ==
    [][ lastStep = "resize" /\ lastStep' = "tick" =>
          /\ 0 <= mouthY'
          /\ mouthY' <= GroundY(canvasH')
          /\ 0 <= backgroundOffset'
          /\ backgroundOffset' < canvasW' * Unit
          /\ 100 * mouthX' = 28 * canvasW' * Unit
          /\ \A i \in DOMAIN pipes' : ProperBarriers(pipes'[i], canvasH')
      ]_vars


\* What the game holds, the model's bookkeeping left out.
GameState ==
    <<canvasW, canvasH, mouthX, mouthY, mouthVelY, pipes, lastPipeAt, score,
      best, isRunning, isGameOver, backgroundOffset, storage, rafPending>>

\* A press in Running leaves the velocity at exactly FLAP_STRENGTH, and a
\* press that follows a press with no tick between changes nothing.
ImpulseIsOverride ==
    /\ Running /\ lastStep' = "flap" => mouthVelY' = FLAP_STRENGTH
    /\ Running /\ lastStep = "flap" /\ lastStep' = "flap" =>
           GameState' = GameState

\* C14 as stated: the impulse overrides and is idempotent, and the velocity
\* after the tick that follows a press is FLAP_STRENGTH + GRAVITY.
ImpulseThenGravity ==
    [][ /\ ImpulseIsOverride
        /\ lastStep = "flap" /\ lastStep' = "tick" =>
               mouthVelY' = FLAP_STRENGTH + GRAVITY
      ]_vars

\* C14, amended: the impulse overrides and is idempotent, and the velocity
\* after the tick that follows a press is FLAP_STRENGTH + GRAVITY unless that
\* tick takes the mouth above the ceiling, where the clamp leaves it at 0.
ImpulseThenGravityOrCeiling ==
    [][ /\ ImpulseIsOverride
        /\ lastStep = "flap" /\ lastStep' = "tick" =>
               mouthVelY' = IF mouthY + FLAP_STRENGTH + GRAVITY < 0
                            THEN 0
                            ELSE FLAP_STRENGTH + GRAVITY
      ]_vars

\* A press in Running with the mouth so close to the ceiling that the next
\* tick clamps it.
PressedUnderCeiling ==
    /\ Running
    /\ lastStep = "flap"
    /\ mouthVelY = FLAP_STRENGTH
    /\ mouthY + FLAP_STRENGTH + GRAVITY < 0
    /\ canvasH * Unit > 2 * (GROUND_HEIGHT + MOUTH_SIZE)


\* What update and resetGame write: the world.
World ==
    <<mouthX, mouthY, mouthVelY, pipes, lastPipeAt, score, best, storage,
      isGameOver, backgroundOffset>>

\* C15: a frame that runs while the game is over changes nothing of the
\* world (the mouth's position and velocity, the obstacles, score, best, the
\* spawn timer, the background offset), however many such frames run; and no
\* frame runs in Idle, where no frame is requested.
FrameWhenOverChangesNothing ==
    [][ /\ GameOver /\ lastStep' \in {"tick", "frame"} =>
             /\ World' = World
             /\ wrote' = 0
             /\ lastStep' = "frame"
        /\ lastStep' \in {"tick", "frame"} => isRunning /\ rafPending > 0
        /\ Idle => rafPending = 0 /\ lastStep' \notin {"tick", "frame"}
      ]_vars

\* The second frame of a game that ended with obstacles on the canvas and a
\* score.
SecondFrameAfterGameOver ==
    /\ GameOver
    /\ lastStep = "frame"
    /\ overFrames = 2
    /\ score > 0
    /\ pipes # <<>>


\* C16: isRunning, once true, is never cleared; every frame, in Running and
\* in GameOver alike, leaves the next frame requested; and with frames
\* delivered fairly a restart is always followed by a tick that advances the
\* restarted world.
LoopKeepsRunning ==
    /\ [][ /\ isRunning => isRunning'
           /\ lastStep' \in {"tick", "frame"} => isRunning' /\ rafPending' = 1
           /\ isRunning => rafPending' >= 1
         ]_vars
    /\ (lastStep = "restart") ~> (lastStep = "tick" /\ ticks > 0)

\* A game restarted by a press after frames had run in GameOver.
RestartedAfterFramesWhenOver ==
    /\ lastStep = "tick"
    /\ ticks = 1
    /\ topScore > 0
    /\ score = 0
    /\ rafPending = 1


\* The values of dt that gameLoop passes to update: the gap between two
\* frames, at most MaxFrameMs.
Dts == { FrameDt(gapMs) : gapMs \in FrameGaps }

\* C17: every running tick adds dt to the spawn timer; when the sum is
\* strictly greater than PIPE_INTERVAL_MS exactly one pipe is appended at the
\* end of the list and the timer becomes 0, otherwise no pipe is added and the
\* timer keeps the sum; so the timer is at most PIPE_INTERVAL_MS after every
\* step.
SpawnTimerPerTick ==
    [][ /\ lastStep' = "tick" =>
             \E dt \in Dts :
                IF lastPipeAt + dt > PIPE_INTERVAL_MS
                THEN /\ lastPipeAt' = 0
                     /\ nextId' = nextId + 1
                     /\ Len(pipes') >= 1
                     /\ pipes'[Len(pipes')].id = nextId'
                     /\ Ids(pipes') \ Ids(pipes) = {nextId'}
                     /\ Cardinality(Ids(pipes')) = Len(pipes')
                ELSE /\ lastPipeAt' = lastPipeAt + dt
                     /\ nextId' = nextId
                     /\ Ids(pipes') \subseteq Ids(pipes)
                     /\ Cardinality(Ids(pipes')) = Len(pipes')
        /\ lastPipeAt <= PIPE_INTERVAL_MS
        /\ lastPipeAt' <= PIPE_INTERVAL_MS
      ]_vars

\* The tick in which the timer reached 1450: the second pipe was appended behind
\* the first and the overshoot of 50 was dropped.
SpawnedWithOvershootDropped ==
    /\ lastStep = "tick"
    /\ lastPipeAt = 0
    /\ ticks = 58
    /\ Len(pipes) = 2
    /\ pipes[2].id = nextId
    /\ JustSpawned(pipes[2])


\* C18: a running tick computes the physics and its clamps from the state
\* before it, then advances the pipes it had and tests them against the
\* mouth's y after the physics, then decides the spawn: game over is set
\* exactly by the ground clamp or by a kept pipe colliding at the new y, and a
\* pipe spawned in the tick ends it unmoved at canvas.width + PIPE_WIDTH with
\* passed false.
TickRunsInOrder ==
    [][ ~isGameOver /\ lastStep' = "tick" =>
          LET ph == Physics(mouthY, mouthVelY, canvasH)
              kept == { i \in DOMAIN pipes' : pipes'[i].id \in Ids(pipes) }
          IN  /\ mouthY' = ph.y
              /\ mouthVelY' = ph.v
              /\ \A i \in kept :
                   pipes'[i].x = PipeWithId(pipes, pipes'[i].id).x - SCROLL_SPEED
              /\ isGameOver' =
                   (ph.over \/ \E i \in kept :
                                  Collides(pipes'[i], mouthX, mouthY', canvasH))
              /\ nextId' # nextId =>
                   LET p == pipes'[Len(pipes')]
                   IN  /\ p.id = nextId'
                       /\ p.x = canvasW * Unit + PIPE_WIDTH
                       /\ ~p.passed
      ]_vars

\* The game ended by a tick in which the mouth fell into a barrier: at the y
\* it had before the tick's physics it collided with no pipe, at the y after
\* it does.
CollidedOnlyAtNewY ==
    /\ lastStep = "tick"
    /\ isGameOver
    /\ mouthY > 0
    /\ mouthY < GroundY(canvasH)
    /\ \E i \in DOMAIN pipes : Collides(pipes[i], mouthX, mouthY, canvasH)
    /\ \A j \in DOMAIN pipes :
         ~Collides(pipes[j], mouthX, mouthY - mouthVelY, canvasH)


\* The pipes a tick scores: those that, once advanced, stay on the list and
\* have their centre left of the mouth's for the first time.
ScoredNow ==
    { i \in DOMAIN pipes :
        LET p == [pipes[i] EXCEPT !.x = @ - SCROLL_SPEED]
        IN  ~ScrolledOff(p) /\ Scores(p, mouthX) }

\* C19: the tick in which the ground clamp sets game over still runs to its
\* end: the background offset advances, every pipe is advanced by
\* SCROLL_SPEED and removed if it has scrolled off, pipes are scored and best
\* is raised and stored, and the spawn timer accumulates and may spawn; a
\* frame that runs once the game is over changes nothing of the world.
GroundTickRunsToItsEnd ==
    [][ /\ (/\ ~isGameOver
            /\ lastStep' = "tick"
            /\ Physics(mouthY, mouthVelY, canvasH).over) =>
             /\ isGameOver'
             /\ backgroundOffset' =
                    (backgroundOffset + SCROLL_SPEED) % (canvasW * Unit)
             /\ \A i \in DOMAIN pipes :
                  LET p == [pipes[i] EXCEPT !.x = @ - SCROLL_SPEED]
                  IN  IF ScrolledOff(p)
                      THEN p.id \notin Ids(pipes')
                      ELSE /\ p.id \in Ids(pipes')
                           /\ PipeWithId(pipes', p.id).x = p.x
                           /\ PipeWithId(pipes', p.id).passed =
                                  (pipes[i].passed \/ i \in ScoredNow)
             /\ score' = score + Cardinality(ScoredNow)
             /\ (ScoredNow # {} /\ GreaterThan(score', best)) =>
                    best' = Num(score') /\ storage' = <<StringOfNat(score')>>
             /\ \E dt \in Dts :
                  IF lastPipeAt + dt > PIPE_INTERVAL_MS
                  THEN lastPipeAt' = 0 /\ nextId' = nextId + 1
                  ELSE lastPipeAt' = lastPipeAt + dt /\ nextId' = nextId
        /\ (isGameOver /\ lastStep' = "frame") => UNCHANGED World
      ]_vars

\* The end of a tick in which the ground ended the game and, in the same
\* tick, a pipe was scored and the new best was stored.
ScoredInGroundTick ==
    /\ lastStep = "tick"
    /\ isGameOver
    /\ mouthY = GroundY(canvasH)
    /\ mouthVelY > 0
    /\ Len(pipes) >= 1
    /\ score >= 1
    /\ wrote = 1


\* C20: at most one gameLoop callback is requested at any time, however
\* presses, frames, restarts and resizes interleave: a press requests a frame
\* only when isRunning is false and sets isRunning in the same step, a frame
\* that runs consumes its request and makes at most one, and nothing else
\* touches the requests.
AtMostOneFramePending ==
    [][ /\ rafPending <= 1
        /\ rafPending' <= 1
        /\ lastStep' \in {"flap", "restart"} =>
             /\ isRunning'
             /\ rafPending' = IF isRunning THEN rafPending ELSE rafPending + 1
        /\ lastStep' \in {"tick", "frame"} =>
             rafPending = 1 /\ rafPending' <= 1
        /\ lastStep' \in {"resize", "keyup"} => rafPending' = rafPending
      ]_vars

\* A repeated keydown of a held key, in a game of which frames have run: still
\* one frame requested.
PressedAgainWithFramePending ==
    /\ lastStep = "flap"
    /\ keyHeld = 2
    /\ ticks > 0
    /\ isRunning
    /\ rafPending = 1


\* The pipes of the current run that have left the list: those spawned in
\* the run less those on the list.
RemovedInRun == nextId - Len(pipes)

\* C21: no pipe leaves the list unscored: every pipe a tick removes had
\* passed = true before that tick, and score is the number of pipes removed
\* in the current run plus the number of pipes on the list with passed = true.
NoPipeLeavesUnscored ==
    [][ /\ lastStep' = "tick" =>
             Ids(pipes) \ Ids(pipes') \subseteq PassedIds(pipes)
        /\ score = RemovedInRun + Cardinality(PassedIds(pipes))
        /\ score' = RemovedInRun' + Cardinality(PassedIds(pipes'))
      ]_vars

\* A run that goes on after a tick has removed its first pipe, which had been
\* scored: the score counts it and the passed pipes still on the list.
RemovedPipeWasScored ==
    /\ lastStep = "tick"
    /\ ~isGameOver
    /\ RemovedInRun = 1
    /\ Cardinality(PassedIds(pipes)) >= 1
    /\ score = 1 + Cardinality(PassedIds(pipes))


\* The least number of running ticks between two spawns: the spawn timer
\* must exceed PIPE_INTERVAL_MS and a tick adds at most MaxFrameMs to it.
MinTicksBetweenSpawns == PIPE_INTERVAL_MS \div MaxFrameMs + 1

\* C22: while canvas.width has not changed since the load or the last reset,
\* the pipes on the list are in the order of their spawning and strictly
\* increasing in x, each at least MinTicksBetweenSpawns ticks of scrolling,
\* which is more than PIPE_WIDTH, to the right of the one before it, so that
\* no two of them overlap horizontally.
PipesLeftToRightAndApart ==
    ~widthChanged =>
        \A i \in 1 .. Len(pipes) - 1 :
            /\ pipes[i].id < pipes[i + 1].id
            /\ pipes[i].x < pipes[i + 1].x
            /\ pipes[i + 1].x - pipes[i].x >= MinTicksBetweenSpawns * SCROLL_SPEED
            /\ pipes[i + 1].x - pipes[i].x > PIPE_WIDTH
            /\ pipes[i].x + pipes[i].width < pipes[i + 1].x

\* Three pipes on a canvas of unchanged width: the first two spawned as close
\* together as the capped dt allows, the third a tick later than that, after
\* a short frame.
PipesAtLeastAndMoreThanLeastApart ==
    /\ ~widthChanged
    /\ Len(pipes) >= 3
    /\ pipes[2].x - pipes[1].x = MinTicksBetweenSpawns * SCROLL_SPEED
    /\ pipes[3].x - pipes[2].x = (MinTicksBetweenSpawns + 1) * SCROLL_SPEED

=============================================================================
